---- MODULE Spec2Model ----
(***************************************************************************)
(* Report lifecycle of the reporting service: the report model store       *)
(* (SaveReportModel, UpdateReportModel, GetReportModel, GetReportModels,   *)
(* DeleteReport), the report files kept at the renderer (CreateReportFile, *)
(* DeleteCreatedReportFile, DownloadReportFile) and the scheduler loop     *)
(* (RunScheduler).  A handler called over HTTP is one action.  A scheduled *)
(* run is split after the lookup of its CreateReportFile, so that the      *)
(* handlers interleave with a run that is in flight.                       *)
(***************************************************************************)
EXTENDS Integers, Sequences, FiniteSets, TLC

\* ---------------------------------------------------------------- bounds
\* The clock runs from 1 to MaxTime.
MaxTime == 5
\* Number of uuids SaveReportModel can draw.
MaxReports == 2
\* Number of artifacts the renderer can create.
MaxFiles == 2
\* Number of handler calls and scheduler ticks in one behaviour.
MaxCalls == 3

\* ------------------------------------------------------------ value sets
Users == {"u1", "u2"}
BadToken == "invalid"
Tokens == Users \cup {BadToken}
Names == {"n1"}

\* A nil *time.Time, and the zero time.Time{}.
Nil == -1
ZeroTime == 0

\* Cron expressions: "" (no schedule), one that fires periodically, one that
\* parses but has no fire time (31 February), and one that does not parse.
NeverCron == "0 0 31 2 *"
BadCron == "not a cron"
PeriodicCrons == {"*/2 * * * *"}
ValidCrons == PeriodicCrons \cup {NeverCron}
CronInputs == {""} \cup ValidCrons \cup {BadCron}

\* Clock units between two fire times of a periodic cron.
CronPeriod(c) == IF c = "*/2 * * * *" THEN 2 ELSE 1

\* A schedule.Next that returns t itself when t is a fire time.
ScheduleNextInclusive(c, t) ==
    IF c = NeverCron THEN ZeroTime
    ELSE ((t + CronPeriod(c) - 1) \div CronPeriod(c)) * CronPeriod(c)

\* schedule.Next(t): the first fire time strictly after t; the zero time when
\* the schedule has no fire time.
ScheduleNext(c, t) ==
    IF c = NeverCron THEN ZeroTime
    ELSE ((t \div CronPeriod(c)) + 1) * CronPeriod(c)

\* The id "" (a request without id) is 0; uuids are 1..MaxReports.
NoId == 0
UUIDs == 1..MaxReports
Ids == {NoId} \cup UUIDs
FileIds == 1..MaxFiles

\* The characters of an id, for the regular-expression search on _id.
IdChars(id) == IF id = NoId THEN <<>> ELSE <<id % 2, id>>

\* ---------------------------------------------------------------- records
\* models.ReportFile: Link is not part of the JSON form.
ReportFile(id, link) == [id |-> id, link |-> link]
LinkOf(fileId) == fileId

\* The zero value of models.Report.
EmptyReport ==
    [id |-> NoId, userId |-> "", name |-> "", cron |-> "",
     scheduledFor |-> Nil, createdAt |-> ZeroTime, updatedAt |-> ZeroTime,
     reportFiles |-> <<>>, filesNil |-> TRUE, emailReceivers |-> <<>>]

VARIABLES
    store,      \* the reports collection: _id -> document
    renderer,   \* ids of the artifacts held by the rendering engine
    now,        \* the clock
    nextUuid,   \* number of uuids drawn so far
    nextFile,   \* number of artifacts created so far
    sched,      \* the scheduler loop
    relay,      \* the mails posted to the mail relay, in order
    mat,        \* a materialization: its inputs, its position and its result
    calls,      \* number of handler calls and scheduler ticks so far
    ret         \* the last operation: its arguments and what it returned

vars == <<store, renderer, now, nextUuid, nextFile, sched, relay, mat, calls, ret>>

\* ---------------------------------------------------------------- helpers
\* s[m..n], empty when n < m.
Slice(s, m, n) == IF n < m THEN <<>> ELSE [k \in 1..(n - m + 1) |-> s[k + m - 1]]

jwtParse(tok) ==
    IF tok \in Users THEN [userId |-> tok, err |-> ""]
    ELSE [userId |-> "", err |-> "Token"]

\* calculateNextSchedule computing the next fire from an earlier instant.
calculateNextScheduleStale(cron, t) ==
    IF cron = "" THEN [ts |-> Nil, err |-> ""]
    ELSE IF cron \notin ValidCrons THEN [ts |-> Nil, err |-> "Cron"]
    ELSE [ts |-> ScheduleNext(cron, t - 1), err |-> ""]

\* calculateNextSchedule without the early return for an empty cron: the
\* empty expression is taken as one that fires at every clock unit.
calculateNextScheduleNoEmptyCheck(cron, t) ==
    IF cron # "" /\ cron \notin ValidCrons THEN [ts |-> Nil, err |-> "Cron"]
    ELSE [ts |-> ScheduleNext(cron, t), err |-> ""]

calculateNextSchedule(cron, t) ==
    IF cron = "" THEN [ts |-> Nil, err |-> ""]
    ELSE IF cron \notin ValidCrons THEN [ts |-> Nil, err |-> "Cron"]
    ELSE [ts |-> ScheduleNext(cron, t), err |-> ""]

\* Reports().FindOne({_id, userid}).Decode(&report)
GetReportModel(st, id, tok, dbFail) ==
    LET claims == jwtParse(tok) IN
    IF claims.err # "" THEN [report |-> EmptyReport, err |-> claims.err]
    ELSE IF dbFail THEN [report |-> EmptyReport, err |-> "Store"]
    ELSE IF id \in DOMAIN st /\ st[id].userId = claims.userId
         THEN [report |-> st[id], err |-> ""]
    ELSE [report |-> EmptyReport, err |-> "NotFound"]

Put(st, id, doc) == [i \in DOMAIN st \cup {id} |-> IF i = id THEN doc ELSE st[i]]
Remove(st, id) == [i \in DOMAIN st \ {id} |-> st[i]]

\* ReplaceOne without the upsert option: without a match nothing is written.
ReplaceOneNoUpsert(st, id, userId, doc, dbFail) ==
    IF dbFail THEN [store |-> st, err |-> "Store"]
    ELSE IF id \in DOMAIN st /\ st[id].userId = userId
         THEN [store |-> Put(st, id, doc), err |-> ""]
    ELSE [store |-> st, err |-> ""]

\* Reports().ReplaceOne({_id, userid}, report, upsert): replaces the matching
\* document; without a match it inserts the replacement, which the unique
\* _id index refuses when another document has that _id.
ReplaceOne(st, id, userId, doc, dbFail) ==
    IF dbFail THEN [store |-> st, err |-> "Store"]
    ELSE IF id \in DOMAIN st /\ st[id].userId = userId
         THEN [store |-> Put(st, id, doc), err |-> ""]
    ELSE IF id \in DOMAIN st THEN [store |-> st, err |-> "DuplicateKey"]
    ELSE [store |-> Put(st, id, doc), err |-> ""]

\* t1 is the clock read by calculateNextSchedule, t2 the one stored.
SaveReportModel(st, report, tok, uuid, t1, t2, dbFail) ==
    LET claims == jwtParse(tok)
        ns == calculateNextSchedule(report.cron, t1)
        doc == [report EXCEPT !.id = uuid, !.userId = claims.userId,
                              !.scheduledFor = ns.ts, !.createdAt = t2]
    IN  IF claims.err # "" THEN [store |-> st, saved |-> EmptyReport, err |-> claims.err]
        ELSE IF ns.err # "" THEN [store |-> st, saved |-> EmptyReport, err |-> ns.err]
        ELSE IF dbFail THEN [store |-> st, saved |-> doc, err |-> "Store"]
        ELSE [store |-> Put(st, uuid, doc), saved |-> doc, err |-> ""]

\* An UpdateReportModel that stamps createdAt as SaveReportModel does.
UpdateReportModelStampsCreatedAt(st, report, tok, t1, t2, getFail, dbFail) ==
    LET claims == jwtParse(tok)
        ns == calculateNextSchedule(report.cron, t1)
        r1 == [report EXCEPT !.userId = claims.userId, !.scheduledFor = ns.ts,
                             !.updatedAt = t2, !.createdAt = t2]
        old == GetReportModel(st, report.id, tok, getFail)
        r2 == IF r1.filesNil
              THEN [r1 EXCEPT !.reportFiles = old.report.reportFiles,
                              !.filesNil = old.report.filesNil]
              ELSE r1
    IN  IF claims.err # "" THEN [store |-> st, err |-> claims.err]
        ELSE IF ns.err # "" THEN [store |-> st, err |-> ns.err]
        ELSE IF r1.filesNil /\ old.err # "" THEN [store |-> st, err |-> ""]
        ELSE ReplaceOne(st, report.id, claims.userId, r2, dbFail)

\* An UpdateReportModel that writes the request as it came, whether or not it
\* carries reportFiles.
UpdateReportModelNoCarryOver(st, report, tok, t1, t2, getFail, dbFail) ==
    LET claims == jwtParse(tok)
        ns == calculateNextSchedule(report.cron, t1)
        r1 == [report EXCEPT !.userId = claims.userId,
                             !.scheduledFor = ns.ts, !.updatedAt = t2]
    IN  IF claims.err # "" THEN [store |-> st, err |-> claims.err]
        ELSE IF ns.err # "" THEN [store |-> st, err |-> ns.err]
        ELSE ReplaceOne(st, report.id, claims.userId, r1, dbFail)

UpdateReportModel(st, report, tok, t1, t2, getFail, dbFail) ==
    LET claims == jwtParse(tok)
        ns == calculateNextSchedule(report.cron, t1)
        r1 == [report EXCEPT !.userId = claims.userId,
                             !.scheduledFor = ns.ts, !.updatedAt = t2]
        old == GetReportModel(st, report.id, tok, getFail)
        r2 == IF r1.filesNil
              THEN [r1 EXCEPT !.reportFiles = old.report.reportFiles,
                              !.filesNil = old.report.filesNil,
                              !.createdAt = old.report.createdAt]
              ELSE r1
    IN  IF claims.err # "" THEN [store |-> st, err |-> claims.err]
        ELSE IF ns.err # "" THEN [store |-> st, err |-> ns.err]
        ELSE IF r1.filesNil /\ old.err # "" THEN [store |-> st, err |-> ""]
        ELSE ReplaceOne(st, report.id, claims.userId, r2, dbFail)

\* A driver delete that reports an absent artifact as an error.
DriverDeleteStrict(rn, fileId, fail) ==
    IF fail \/ fileId \notin rn THEN [renderer |-> rn, err |-> "Renderer"]
    ELSE [renderer |-> rn \ {fileId}, err |-> ""]

\* Driver.DeleteCreatedReportFile: an artifact that is already absent is not
\* an error.
DriverDelete(rn, fileId, fail) ==
    IF fail THEN [renderer |-> rn, err |-> "Renderer"]
    ELSE [renderer |-> rn \ {fileId}, err |-> ""]

\* The loop of DeleteReport over report.ReportFiles, from position k on; the
\* failAt-th renderer call fails (0: none does).  calls lists the file ids
\* for which a renderer delete was issued.
RECURSIVE DeleteFiles(_, _, _, _, _)
DeleteFiles(rn, files, k, failAt, issued) ==
    IF k > Len(files) THEN [renderer |-> rn, err |-> "", calls |-> issued]
    ELSE LET d == DriverDelete(rn, files[k].id, k = failAt) IN
         IF d.err # ""
         THEN [renderer |-> rn, err |-> d.err, calls |-> Append(issued, files[k].id)]
         ELSE DeleteFiles(d.renderer, files, k + 1, failAt, Append(issued, files[k].id))

\* Reports().FindOneAndDelete(req): req is {_id, userid}, or {_id} for admin.
FindOneAndDelete(st, id, userId, admin, dbFail) ==
    IF dbFail THEN [store |-> st, err |-> "Store"]
    ELSE IF id \in DOMAIN st /\ (admin \/ st[id].userId = userId)
         THEN [store |-> Remove(st, id), err |-> ""]
    ELSE [store |-> st, err |-> "NotFound"]

NoCalls == <<>>

\* A DeleteReport that removes the model whether or not the renderer deletes
\* succeeded.
DeleteReportModelFirst(st, rn, id, tok, admin, getFail, failAt, dbFail) ==
    LET claims == jwtParse(tok)
        got == GetReportModel(st, id, tok, getFail)
        del == DeleteFiles(rn, got.report.reportFiles, 1, failAt, NoCalls)
        res == FindOneAndDelete(st, id, claims.userId, admin, dbFail)
    IN  IF claims.err # ""
        THEN [store |-> st, renderer |-> rn, err |-> claims.err, calls |-> NoCalls]
        ELSE IF got.err # ""
        THEN [store |-> st, renderer |-> rn, err |-> got.err, calls |-> NoCalls]
        ELSE [store |-> res.store, renderer |-> del.renderer,
              err |-> IF del.err # "" THEN del.err ELSE res.err, calls |-> del.calls]

DeleteReport(st, rn, id, tok, admin, getFail, failAt, dbFail) ==
    LET claims == jwtParse(tok)
        got == GetReportModel(st, id, tok, getFail)
        del == DeleteFiles(rn, got.report.reportFiles, 1, failAt, NoCalls)
        res == FindOneAndDelete(st, id, claims.userId, admin, dbFail)
    IN  IF claims.err # ""
        THEN [store |-> st, renderer |-> rn, err |-> claims.err, calls |-> NoCalls]
        ELSE IF got.err # ""
        THEN [store |-> st, renderer |-> rn, err |-> got.err, calls |-> NoCalls]
        ELSE IF del.err # ""
        THEN [store |-> st, renderer |-> del.renderer, err |-> del.err, calls |-> del.calls]
        ELSE [store |-> res.store, renderer |-> del.renderer, err |-> res.err,
              calls |-> del.calls]

\* The removal loop of DeleteCreatedReportFile.  It ranges over the slice as
\* it was when the loop started (backing, with its original length) while
\* report.ReportFiles (the first len elements of backing) shrinks; removing
\* at index i shifts the tail of the backing array to the left.  A removal at
\* an index beyond the current length is a slice-bounds panic.
RECURSIVE RemoveLoop(_, _, _, _)
RemoveLoop(backing, len, i, fileId) ==
    IF i > Len(backing) THEN [files |-> Slice(backing, 1, len), panic |-> FALSE]
    ELSE IF backing[i].id # fileId THEN RemoveLoop(backing, len, i + 1, fileId)
    ELSE IF i > len THEN [files |-> Slice(backing, 1, len), panic |-> TRUE]
    ELSE RemoveLoop([j \in 1..Len(backing) |->
                        IF j >= i /\ j < len THEN backing[j + 1] ELSE backing[j]],
                    len - 1, i + 1, fileId)

RemoveFile(files, fileId) == RemoveLoop(files, Len(files), 1, fileId)

DeleteCreatedReportFile(st, rn, reportId, fileId, tok, t1, t2, fail) ==
    LET got == GetReportModel(st, reportId, tok, fail = "get")
        d == DriverDelete(rn, fileId, fail = "renderer")
        rem == RemoveFile(got.report.reportFiles, fileId)
        report == [got.report EXCEPT !.reportFiles = rem.files]
        upd == UpdateReportModel(st, report, tok, t1, t2, fail = "get2", fail = "write")
    IN  IF got.err # "" THEN [store |-> st, renderer |-> rn, err |-> got.err]
        ELSE IF d.err # "" THEN [store |-> st, renderer |-> rn, err |-> d.err]
        ELSE IF rem.panic THEN [store |-> st, renderer |-> d.renderer, err |-> "Panic"]
        ELSE [store |-> upd.store, renderer |-> d.renderer, err |-> upd.err]

\* Driver.GetReportContent
DownloadReportFile(st, rn, reportId, fileId, tok, fail) ==
    LET got == GetReportModel(st, reportId, tok, fail = "get") IN
    IF got.err # "" THEN [content |-> <<>>, err |-> got.err]
    ELSE IF fail = "renderer" \/ fileId \notin rn THEN [content |-> <<>>, err |-> "Renderer"]
    ELSE [content |-> <<fileId>>, err |-> ""]

\* ------------------------------------------------------------- list query
Contains(s, p) ==
    \E i \in 0..(Len(s) - Len(p)) : Slice(s, i + 1, i + Len(p)) = p

Patterns == {<<1>>, <<0, 2>>}
AllListArgs ==
    [hasSearch : BOOLEAN, search : Patterns, skip : 0..1, limit : 0..1, desc : BOOLEAN]
\* The queries the List action issues.
ListArgs == {a \in AllListArgs : a.search = <<1>> /\ a.skip = 0 /\ a.limit = 0 /\ ~a.desc}

\* The ids of S as a sequence, ascending or descending.
RECURSIVE SortIds(_, _)
SortIds(S, desc) ==
    IF S = {} THEN <<>>
    ELSE LET first == CHOOSE x \in S : \A y \in S : IF desc THEN x >= y ELSE x <= y
         IN  <<first>> \o SortIds(S \ {first}, desc)

\* A filter whose search branch does not carry the userid condition.
ListFilterSearchUnscoped(st, userId, args, admin) ==
    IF admin THEN DOMAIN st
    ELSE IF args.hasSearch
         THEN {i \in DOMAIN st : Contains(IdChars(i), args.search)}
    ELSE {i \in DOMAIN st : st[i].userId = userId}

\* The filter document of GetReportModels.
ListFilter(st, userId, args, admin) ==
    IF admin THEN DOMAIN st
    ELSE IF args.hasSearch
         THEN {i \in DOMAIN st : st[i].userId = userId /\ Contains(IdChars(i), args.search)}
    ELSE {i \in DOMAIN st : st[i].userId = userId}

GetReportModels(st, tok, args, admin, dbFail) ==
    LET claims == jwtParse(tok)
        all == SortIds(ListFilter(st, claims.userId, args, admin), args.desc)
        skipped == Slice(all, args.skip + 1, Len(all))
        limited == IF args.limit = 0 THEN skipped
                   ELSE Slice(skipped, 1, IF args.limit < Len(skipped) THEN args.limit ELSE Len(skipped))
    IN  IF claims.err # "" THEN [reports |-> <<>>, err |-> claims.err]
        ELSE IF dbFail THEN [reports |-> <<>>, err |-> "Store"]
        ELSE [reports |-> limited, err |-> ""]

\* ------------------------------------------------------------- requests
NoLink == 0
\* What a client sees of a stored file list, and so can send back.
JsonFiles(files) == [k \in 1..Len(files) |-> ReportFile(files[k].id, NoLink)]

FileChoices(st, id) ==
    {[nil |-> TRUE, list |-> <<>>], [nil |-> FALSE, list |-> <<>>]}
    \cup (IF id \in DOMAIN st /\ st[id].reportFiles # <<>>
          THEN {[nil |-> FALSE, list |-> JsonFiles(st[id].reportFiles)]}
          ELSE {})

\* The ids a client knows: those SaveReportModel has handed out.
ReqIds == 1..nextUuid

\* The cron expressions a user puts in requests: u1 schedules reports, the
\* other users do not.
UserCrons(tok) == IF tok = "u1" THEN CronInputs ELSE {""}

\* The crons of requests that name a report.
UpdateCrons(tok) == UserCrons(tok) \ {NeverCron}

\* The receivers of a report's mails: none, or one address.  The user who
\* schedules reports names a receiver for some of them.
Receivers == {<<>>, <<"a1">>}
UserReceivers(tok, cron) ==
    IF tok = "u1" /\ cron \in ValidCrons THEN Receivers ELSE {<<>>}
WithReceivers(report, rcv) == [report EXCEPT !.emailReceivers = rcv]

\* The body of POST /report and of POST /report/create without an id.
SaveRequest(name, cron) == [EmptyReport EXCEPT !.name = name, !.cron = cron]

\* The body of PUT /report, with reportFiles absent, empty, or as read, and
\* the body of POST /report/create for a report (reportFiles absent).
UpdateRequest(id, name, cron, f) ==
    [EmptyReport EXCEPT !.id = id, !.name = name, !.cron = cron,
                        !.reportFiles = f.list, !.filesNil = f.nil]

NilFiles == [nil |-> TRUE, list |-> <<>>]

\* The clock read twice in one handler: the second read is not earlier.
SecondReads == {t \in {now, now + 1} : t <= MaxTime}

\* The second reads explored for a call: a later second read is explored
\* where the schedule is computed from a periodic cron, and not together
\* with a failing call.
Reads(cron, fail) ==
    {t \in SecondReads : t # now => cron \in PeriodicCrons /\ fail = "none"}

\* What ret records of a call: the operation, its arguments (the report id,
\* the token, the admin flag), a flag (the request's reportFiles was nil, the
\* list had a search argument, the lookup led to the implicit save, the
\* trailing update of a scheduled run found no record to replace), the error
\* ("" for none) and the ids it returned or touched; req is the report of
\* the request body, for the operations that take one; fault names the call
\* to the store, the renderer or another service that failed under the
\* operation ("none" when all of them served).
Result(op, id, tok, admin, flag, err, out) ==
    [op |-> op, id |-> id, tok |-> tok, admin |-> admin, flag |-> flag,
     err |-> err, out |-> out, req |-> EmptyReport, fault |-> "none", leaf |-> FALSE]

WithFault(result, fail) == [result EXCEPT !.fault = fail]

WithRequest(result, req) == [result EXCEPT !.req = req]

\* ------------------------------------------------------ CreateReportFile
\* First part of CreateReportFile: the lookup, the implicit save when the
\* lookup found nothing (GetReportModel returns the zero Report with every
\* error, so reportModel.Id == "" holds for every failed lookup), and the
\* carry-over of the stored file list.  The error of the implicit save is
\* dropped.
CreateReportFileLookup(st, req, tok, uuid, t1, t2, getFail, saveFail) ==
    LET got == GetReportModel(st, req.id, tok, getFail)
        implicit == got.err = "NotFound" \/ got.report.id = NoId
        sv == SaveReportModel(st, req, tok, uuid, t1, t2, saveFail)
        model == IF implicit THEN sv.saved ELSE got.report
        request == IF implicit THEN sv.saved ELSE req
    IN  [store |-> IF implicit THEN sv.store ELSE st,
         implicit |-> implicit,
         model |-> model,
         request |-> [request EXCEPT !.reportFiles = model.reportFiles,
                                     !.filesNil = model.filesNil],
         err |-> IF implicit THEN "" ELSE got.err]

\* Second part: setReportFileData and Driver.CreateReport.  fail names the
\* call that fails: "data" (an upstream query of the materialization) or
\* "renderer".  The new artifact gets the next file id.
CreateReportFileRender(rn, tok, fileId, fail) ==
    LET claims == jwtParse(tok) IN
    IF claims.err # "" THEN [renderer |-> rn, created |-> FALSE, err |-> claims.err]
    ELSE IF fail = "data" THEN [renderer |-> rn, created |-> FALSE, err |-> "Upstream"]
    ELSE IF fail = "renderer" THEN [renderer |-> rn, created |-> FALSE, err |-> "Renderer"]
    ELSE [renderer |-> rn \cup {fileId}, created |-> TRUE, err |-> ""]

\* A third part that writes the new file alone instead of appending it.
CreateReportFileUpdateFresh(st, request, model, fileId, tok, t1, t2, dbFail) ==
    LET r == [request EXCEPT
                 !.reportFiles = <<ReportFile(fileId, LinkOf(fileId))>>,
                 !.filesNil = FALSE,
                 !.createdAt = model.createdAt]
        upd == UpdateReportModel(st, r, tok, t1, t2, FALSE, dbFail)
    IN  [store |-> upd.store, report |-> r, err |-> upd.err]

\* A third part that leaves createdAt as the request carries it.
CreateReportFileUpdateRequestCreatedAt(st, request, model, fileId, tok, t1, t2, dbFail) ==
    LET r == [request EXCEPT
                 !.reportFiles = Append(request.reportFiles, ReportFile(fileId, LinkOf(fileId))),
                 !.filesNil = FALSE]
        upd == UpdateReportModel(st, r, tok, t1, t2, FALSE, dbFail)
    IN  [store |-> upd.store, report |-> r, err |-> upd.err]

\* Third part: append the file, keep the model's createdAt, UpdateReportModel.
CreateReportFileUpdate(st, request, model, fileId, tok, t1, t2, dbFail) ==
    LET r == [request EXCEPT
                 !.reportFiles = Append(request.reportFiles, ReportFile(fileId, LinkOf(fileId))),
                 !.filesNil = FALSE,
                 !.createdAt = model.createdAt]
        upd == UpdateReportModel(st, r, tok, t1, t2, FALSE, dbFail)
    IN  [store |-> upd.store, report |-> r, err |-> upd.err]

\* CreateReportFile as a whole.  fail names the call that fails ("get",
\* "save", "data", "renderer", "write", or "none"); t1 and t2 are the clock
\* read by the implicit save and by the trailing update.
CreateReportFile(st, rn, req, tok, uuid, fileId, t1, t2, fail) ==
    LET lk == CreateReportFileLookup(st, req, tok, uuid, t1, t1, fail = "get", fail = "save")
        rd == CreateReportFileRender(rn, tok, fileId, fail)
        up == CreateReportFileUpdate(lk.store, lk.request, lk.model, fileId, tok,
                                     t1, t2, fail = "write")
    IN  IF lk.err # ""
        THEN [store |-> lk.store, renderer |-> rn, report |-> EmptyReport,
              created |-> FALSE, implicit |-> lk.implicit, err |-> lk.err]
        ELSE IF rd.err # ""
        THEN [store |-> lk.store, renderer |-> rn, report |-> EmptyReport,
              created |-> FALSE, implicit |-> lk.implicit, err |-> rd.err]
        ELSE [store |-> up.store, renderer |-> rd.renderer,
              report |-> IF up.err = "" THEN up.report ELSE EmptyReport,
              created |-> TRUE, implicit |-> lk.implicit, err |-> up.err]

\* ------------------------------------------------------ setReportFileData
\* Keys of the data maps.
DataKeys == {"0", "1"}
\* The keys the children of an array are given under: indices in decimal
\* notation, an index with a leading zero, and a key that is no number.
ChildKeys == {"1", "2", "10", "01", "x"}
\* The time-series queries and the device queries a report names.
TsQueries == {"q1", "q0"}
DeviceQueries == {"d1"}
Upstreams == TsQueries \cup DeviceQueries

\* What the upstream services answer: a list whose nil elements are Nil.
QueryResponse(q) ==
    IF q = "q1" THEN <<Nil, 4>> ELSE IF q = "q0" THEN <<>> ELSE <<7>>

\* A time as time.Parse reads it from query.time.start or query.time.end:
\* year, month, day and the minute of the day.  NilDate is a nil *string.
Date(year, month, day, min) == [year |-> year, month |-> month, day |-> day, min |-> min]
NilDate == Date(0, 0, 0, 0)
\* time.Now() while a report is materialized.
Today == Date(2024, 7, 15, 0)
MinutesPerDay == 1440
\* t.Add(time.Minute * n), for days that stay inside their month.
AddMinutes(d, n) ==
    [d EXCEPT !.day = d.day + ((d.min + n) \div MinutesPerDay),
              !.min = (d.min + n) % MinutesPerDay]

\* models.QueryOptions: the rolling dates are "" and the offsets are Nil
\* for nil pointers.  NilQueryOptions is a nil *QueryOptions.
QueryOptions(rollingStartDate, rollingEndDate, startOffset, endOffset) ==
    [nil |-> FALSE, rollingStartDate |-> rollingStartDate,
     rollingEndDate |-> rollingEndDate, startOffset |-> startOffset,
     endOffset |-> endOffset]
NilQueryOptions == [QueryOptions("", "", Nil, Nil) EXCEPT !.nil = TRUE]

\* models.ReportObject: value is Nil for a nil Value; query and deviceQuery
\* are "" for nil pointers; fields and children are maps.  start and end are
\* query.time.start and query.time.end.
ReportObject(valueType, value, query, deviceQuery, fields, children) ==
    [valueType |-> valueType, value |-> value, query |-> query,
     deviceQuery |-> deviceQuery, fields |-> fields, children |-> children,
     start |-> NilDate, end |-> NilDate, queryOptions |-> NilQueryOptions]
\* The object with the time bounds of its query and with query options.
Timed(object, start, end, options) ==
    [object EXCEPT !.start = start, !.end = end, !.queryOptions = options]
EmptyMap == <<>>

\* The values of a materialized map: a scalar, a list, or a map.
ScalarValue(v) == [kind |-> "scalar", num |-> v, items |-> <<>>, map |-> EmptyMap]
ListValue(items) == [kind |-> "list", num |-> 0, items |-> items, map |-> EmptyMap]
MapValue(m) == [kind |-> "map", num |-> 0, items |-> <<>>, map |-> m]
\* A nil interface value.
NilValue == ScalarValue(Nil)

\* resultData[key] = v, and delete(resultData, key).
MapSet(m, key, v) == [k \in DOMAIN m \cup {key} |-> IF k = key THEN v ELSE m[k]]
MapDelete(m, key) == [k \in DOMAIN m \ {key} |-> m[k]]
\* m[key], nil for a key the map does not hold.
MapGet(m, key) == IF key \in DOMAIN m THEN m[key] ELSE NilValue

\* filterQueryValues: a nil value becomes 0.
filterQueryValues(resp) ==
    [i \in 1..Len(resp) |-> ScalarValue(IF resp[i] = Nil THEN 0 ELSE resp[i])]

\* The rewrite of one time bound.
RollDate(date, rolling, offset) ==
    LET base == AddMinutes(date, 0 - offset)
        newDate == IF rolling = "month"
                   THEN Date(Today.year, Today.month, base.day, 0)
                   ELSE IF rolling = "year"
                   THEN Date(Today.year, base.month, base.day, 0)
                   ELSE base
    IN  AddMinutes(newDate, offset)

\* updateStartAndEndDate: the rewrite goes through the pointers of the
\* object, and a nil offset of a bound that is rewritten is dereferenced.
updateStartAndEndDate(object) ==
    LET o == object.queryOptions
        rollStart == ~o.nil /\ o.rollingStartDate # "" /\ object.start # NilDate
        rollEnd == ~o.nil /\ o.rollingEndDate # "" /\ object.end # NilDate
        started == [object EXCEPT !.start =
                       RollDate(object.start, o.rollingStartDate, o.startOffset)]
        afterStart == IF rollStart THEN started ELSE object
    IN  IF rollStart /\ o.startOffset = Nil THEN [object |-> object, panic |-> TRUE]
        ELSE IF rollEnd /\ o.endOffset = Nil THEN [object |-> afterStart, panic |-> TRUE]
        ELSE [object |-> IF rollEnd
                         THEN [afterStart EXCEPT !.end =
                                  RollDate(object.end, o.rollingEndDate, o.endOffset)]
                         ELSE afterStart,
              panic |-> FALSE]

\* The keys of a map in the order a range statement visits them: the order
\* is not specified, any order of the keys can occur.
RangeOrder(m, order) == SelectSeq(order, LAMBDA k : k \in DOMAIN m)

\* strconv.Atoi of a key and strconv.Itoa of an index.
AtoiFails(k) == k = "x"
Atoi(k) ==
    IF k = "0" THEN 0 ELSE IF k = "2" THEN 2 ELSE IF k = "10" THEN 10 ELSE 1
Itoa(i) ==
    IF i = 0 THEN "0" ELSE IF i = 2 THEN "2" ELSE IF i = 10 THEN "10" ELSE "1"
\* The keys of a map converted with Atoi, after sort.Ints.
SortedInts(m) ==
    LET ks == SelectSeq(<<"0", "1", "2", "10", "01">>, LAMBDA k : k \in DOMAIN m)
    IN  SortSeq([i \in 1..Len(ks) |-> Atoi(ks[i])], LAMBDA a, b : a < b)

\* A query of an upstream service: it fails when the service fails it.
UpstreamQuery(q, failing) ==
    IF q \in failing THEN [resp |-> <<>>, err |-> "Upstream"]
    ELSE [resp |-> QueryResponse(q), err |-> ""]

\* The state a walk carries: resultData, the named result err, the upstream
\* queries issued so far, whether the function has returned, whether it
\* panicked, and the map it was given as the rewrites have left it.
Walking(data, err, called, returned, panic, input) ==
    [data |-> data, err |-> err, called |-> called, returned |-> returned,
     panic |-> panic, input |-> input]
Walked(data, err, called, returned) ==
    Walking(data, err, called, returned, FALSE, EmptyMap)
\* A nil pointer dereference ends the walk, and every walk that called it.
Panicked(w, called) ==
    [w EXCEPT !.called = called, !.returned = TRUE, !.panic = TRUE]

ScalarTypes == {"string", "int", "float", "float64"}

\* A scalar resolved by a query: the first element that is left, if any.
ScalarResult(resultData, key, responseData) ==
    IF Len(filterQueryValues(responseData)) > 0
    THEN MapSet(resultData, key, filterQueryValues(responseData)[1])
    ELSE resultData

\* An object: the map its fields gave, unless that map is empty.
ObjectResultKeepsEmpty(resultData, key, fields) ==
    MapSet(resultData, key, MapValue(fields))
ObjectResult(resultData, key, fields) ==
    IF DOMAIN fields = {} THEN MapDelete(resultData, key)
    ELSE MapSet(resultData, key, MapValue(fields))

\* An array with children: what the children gave, in the order of the
\* keys sorted as integers, each looked up under Itoa of its integer.
ArrayResult(resultData, key, arrayData) ==
    LET keys == SortedInts(arrayData)
        dataSlice == [i \in 1..Len(keys) |-> MapGet(arrayData, Itoa(keys[i]))]
    IN  IF Len(dataSlice) = 0 THEN MapDelete(resultData, key)
        ELSE MapSet(resultData, key, ListValue(dataSlice))

\* setReportFileData.  WalkKeys is its loop over the keys ks that are left,
\* w the state carried so far.  err is the named result: an assignment in a
\* later iteration replaces what an earlier one left in it.
RECURSIVE setReportFileData(_, _, _, _), WalkKeys(_, _, _, _, _, _)
WalkKeys(data, ks, w, tok, order, failing) ==
    IF ks = <<>> THEN w
    ELSE
      LET key == Head(ks)
          value == data[key]
          \* the branches that query the time-series service
          rolled == updateStartAndEndDate(value)
          ts == UpstreamQuery(value.query, failing)
          tsCalled == w.called \cup {value.query}
          queried(found) ==
            IF rolled.panic \/ value.queryOptions.nil THEN Panicked(w, w.called)
            ELSE IF ts.err # "" THEN Walked(w.data, ts.err, tsCalled, TRUE)
            ELSE Walked(found, "", tsCalled, FALSE)
          \* the branches that recur
          fields == setReportFileData(value.fields, tok, order, failing)
          children == setReportFileData(value.children, tok, order, failing)
          \* the device query
          dev == UpstreamQuery(value.deviceQuery, failing)
          devItems == [i \in 1..Len(dev.resp) |-> ScalarValue(dev.resp[i])]
          next ==
            IF value.valueType \in ScalarTypes
            THEN IF value.value # Nil
                 THEN Walked(MapSet(w.data, key, ScalarValue(value.value)), w.err, w.called, FALSE)
                 ELSE IF value.query # ""
                 THEN queried(ScalarResult(w.data, key, ts.resp))
                 ELSE Walked(MapDelete(w.data, key), w.err, w.called, FALSE)
            ELSE IF value.valueType = "object"
            THEN IF fields.panic THEN Panicked(w, w.called \cup fields.called)
                 ELSE IF fields.err # ""
                 THEN Walked(MapSet(w.data, key, MapValue(fields.data)), fields.err,
                             w.called \cup fields.called, TRUE)
                 ELSE Walked(ObjectResult(w.data, key, fields.data),
                             "", w.called \cup fields.called, FALSE)
            ELSE IF value.valueType = "array"
            THEN IF value.value # Nil
                 THEN Walked(MapSet(w.data, key, ScalarValue(value.value)), w.err, w.called, FALSE)
                 ELSE IF DOMAIN value.children # {}
                 THEN IF children.panic THEN Panicked(w, w.called \cup children.called)
                      ELSE IF children.err # ""
                      THEN Walked(w.data, children.err, w.called \cup children.called, TRUE)
                      ELSE IF \E k \in DOMAIN children.data : AtoiFails(k)
                      THEN Walked(w.data, "Atoi", w.called \cup children.called, TRUE)
                      ELSE Walked(ArrayResult(w.data, key, children.data),
                                  "", w.called \cup children.called, FALSE)
                 ELSE IF value.query # ""
                 THEN queried(MapSet(w.data, key, ListValue(filterQueryValues(ts.resp))))
                 ELSE IF value.deviceQuery # ""
                 THEN Walked(MapSet(w.data, key, ListValue(devItems)), dev.err,
                             w.called \cup {value.deviceQuery}, FALSE)
                 ELSE Walked(w.data, w.err, w.called, FALSE)
            ELSE Walked(w.data, w.err, w.called, FALSE)
          \* the object under key as the rewrites of this iteration leave it
          rewritten ==
            IF value.valueType = "object"
            THEN [value EXCEPT !.fields = fields.input]
            ELSE IF value.valueType = "array" /\ value.value = Nil
                    /\ DOMAIN value.children # {}
            THEN [value EXCEPT !.children = children.input]
            ELSE IF value.valueType \in ScalarTypes \cup {"array"}
                    /\ value.value = Nil /\ value.query # ""
            THEN rolled.object
            ELSE value
          left == [next EXCEPT !.input = [w.input EXCEPT ![key] = rewritten]]
      IN  IF left.returned THEN left
          ELSE WalkKeys(data, Tail(ks), left, tok, order, failing)

setReportFileData(data, tok, order, failing) ==
    IF jwtParse(tok).err # ""
    THEN Walking(EmptyMap, jwtParse(tok).err, {}, TRUE, FALSE, data)
    ELSE WalkKeys(data, RangeOrder(data, order),
                  Walking(EmptyMap, "", {}, FALSE, FALSE, data), tok, order, failing)

\* The materialization of one report's data, as CreateReportFile runs it:
\* the data of the request, the token, the order in which the maps are
\* ranged over, the upstream queries that fail, the result of the walk, and
\* the data of the stored report.
Materialization(pc, data, tok, order, failing, out) ==
    [pc |-> pc, data |-> data, tok |-> tok, order |-> order, failing |-> failing,
     out |-> out, stored |-> data]
NotWalked == Walked(EmptyMap, "", {}, FALSE)
\* No materialization is looked at.
NoMaterialization == Materialization("off", EmptyMap, BadToken, <<>>, {}, NotWalked)

\* Query options that are given with none of their fields.
NoOptions == QueryOptions("", "", Nil, Nil)

\* The report objects without fields and children: a literal, a scalar
\* resolved by a time-series query, a scalar with neither, an array resolved
\* by a time-series query, and an array resolved by a device query.
LeafObjects ==
    {ReportObject("string", 1, "", "", EmptyMap, EmptyMap),
     Timed(ReportObject("float", Nil, "q1", "", EmptyMap, EmptyMap), NilDate, NilDate, NoOptions),
     ReportObject("int", Nil, "", "", EmptyMap, EmptyMap),
     Timed(ReportObject("array", Nil, "q1", "", EmptyMap, EmptyMap), NilDate, NilDate, NoOptions),
     ReportObject("array", Nil, "", "d1", EmptyMap, EmptyMap)}

\* The maps from some of the keys to the objects of S.
MapsOver(S) == UNION {[K -> S] : K \in SUBSET DataKeys}

\* Objects and arrays over leaves, and the data of a request: a map whose
\* values are leaves, objects or arrays.
NestedObjects ==
    {ReportObject("object", Nil, "", "", m, EmptyMap) : m \in MapsOver(LeafObjects)}
    \cup {ReportObject("array", Nil, "", "", EmptyMap, m) : m \in MapsOver(LeafObjects)}
DataInputs == MapsOver(LeafObjects \cup NestedObjects)

\* Data one level deeper: an object over leaves and objects of leaves, alone
\* or next to a literal.
DeepInputs ==
    UNION {{[k \in {"0"} |-> ReportObject("object", Nil, "", "", m, EmptyMap)],
            [k \in {"0", "1"} |->
                IF k = "0" THEN ReportObject("object", Nil, "", "", m, EmptyMap)
                ELSE ReportObject("string", 1, "", "", EmptyMap, EmptyMap)]} :
           m \in MapsOver(LeafObjects \cup
                          {o \in NestedObjects : o.valueType = "object"})}

\* Scalars with and without a value, a query and query options.
ScalarObjects ==
    {Timed(ReportObject(t, v, q, "", EmptyMap, EmptyMap), NilDate, NilDate, o) :
        t \in {"int", "float"}, v \in {Nil, 1}, q \in {"", "q1", "q0"},
        o \in {NilQueryOptions, NoOptions}}

\* Scalars and arrays resolved by a query with time bounds and rolling dates.
StartDates == {NilDate, Date(2024, 1, 10, 0), Date(2024, 7, 10, 720)}
EndDates == {NilDate, Date(2024, 1, 20, 0)}
RollingOptions ==
    {NilQueryOptions} \cup
    {QueryOptions(rs, re, so, eo) :
        rs \in {"", "month", "year"}, re \in {"", "month"},
        so \in {Nil, 0, 60}, eo \in {Nil, 0}}
RollingObjects ==
    {Timed(ReportObject(t, Nil, "q1", "", EmptyMap, EmptyMap), s, e, o) :
        t \in {"float", "array"}, s \in StartDates, e \in EndDates,
        o \in RollingOptions}
\* One object under the key "0", and the same inside an object.
Single(S) ==
    UNION {{[k \in {"0"} |-> x],
            [k \in {"0"} |->
                ReportObject("object", Nil, "", "", [j \in {"0"} |-> x], EmptyMap)]} :
           x \in S}

\* Arrays with children: each key of ChildKeys has no child, a literal that
\* tells the key, or a scalar that gives no value.
ChildValue(k) == 100 + (IF AtoiFails(k) THEN 0 ELSE Atoi(k)) + (IF k = "01" THEN 50 ELSE 0)
ChildMaps ==
    UNION {{[k \in K |-> IF k \in V
                         THEN ReportObject("int", ChildValue(k), "", "", EmptyMap, EmptyMap)
                         ELSE ReportObject("int", Nil, "", "", EmptyMap, EmptyMap)] :
            V \in SUBSET K} : K \in SUBSET ChildKeys}
ChildInputs ==
    {[k \in {"0"} |-> ReportObject("array", Nil, "", "", EmptyMap, m)] : m \in ChildMaps}

\* The orders of the keys.
RangeOrders ==
    {<<"0", "1", "2", "10", "01", "x">>, <<"x", "01", "10", "2", "1", "0">>}

\* The order the requests without siblings are walked in.
KeyOrder == <<"0", "1", "2", "10", "01", "x">>

\* ------------------------------------------------------------ EmailReport
\* A mail as the relay receives it: its Bcc and its one attachment, the
\* content downloaded for the file and the file's id in the file name.
Mail(receivers, fileId, content) ==
    [bcc |-> receivers, filename |-> fileId, content |-> content]

\* fail names the call that fails: "download" (the renderer, under
\* DownloadReportFile) or "email" (the relay).
EmailReport(st, rn, posted, fileId, report, tok, fail) ==
    LET dl == DownloadReportFile(st, rn, report.id, fileId, tok,
                                 IF fail = "download" THEN "renderer" ELSE "none")
    IN  IF Len(report.emailReceivers) = 0 THEN [relay |-> posted, sent |-> FALSE, err |-> ""]
        ELSE IF dl.err # "" THEN [relay |-> posted, sent |-> FALSE, err |-> dl.err]
        ELSE IF fail = "email" THEN [relay |-> posted, sent |-> FALSE, err |-> "Email"]
        ELSE [relay |-> Append(posted, Mail(report.emailReceivers, fileId, dl.content)),
              sent |-> TRUE, err |-> ""]

\* -------------------------------------------------------------- scheduler
\* Reports().Find({scheduledfor: {$lt: now}}): documents without a
\* scheduledfor date do not match.  The cursor yields them in the order of
\* their ids, the order in which the model draws them.
Due(st, t) == {i \in DOMAIN st : st[i].scheduledFor # Nil /\ st[i].scheduledFor < t}

DueReports(st, t) ==
    LET ids == SortIds(Due(st, t), FALSE) IN [k \in 1..Len(ids) |-> st[ids[k]]]

\* ------------------------------------------------------------------- Init
\* The scheduler waiting for a tick.  ran is history: the ids of the reports
\* that the runs of the latest tick wrote.
Idle(ran) == [pc |-> "idle", ran |-> ran]
\* RunScheduler has returned.
Stopped == [pc |-> "stopped"]
\* The scheduler between two reports of the cursor.
Loop(queue, ran) == [pc |-> "loop", queue |-> queue, ran |-> ran]
\* The scheduler inside CreateReportFile, after the lookup; report is the
\* document of the cursor that RunScheduler holds.
Rendering(report, request, model, queue, ran) ==
    [pc |-> "render", report |-> report, request |-> request, model |-> model,
     queue |-> queue, ran |-> ran]

NoArgs == Result("", NoId, BadToken, FALSE, FALSE, "", <<>>)

Init ==
    /\ store = <<>>
    /\ renderer = {}
    /\ now = 1
    /\ nextUuid = 0
    /\ nextFile = 0
    /\ sched = Idle({})
    /\ relay = <<>>
    /\ mat = NoMaterialization
    /\ calls = 0
    /\ ret = [NoArgs EXCEPT !.op = "init"]

\* A step of a handler or of the scheduler: the new values of the program's
\* state and the result.  counted tells a handler call or a tick from a step
\* inside a tick; injected tells that a failure of the store, of the renderer
\* or of an upstream service was injected into the step.  A step that changes
\* nothing is explored as a leaf: the behaviours that continue after it are
\* those that continue from the state before it.  A behaviour is explored up
\* to the first failure injected into a handler: the state that failure
\* leaves is a leaf too.  A failure inside RunScheduler ends the scheduler
\* goroutine only (main logs the error and goes on in StartAPI), so the
\* handlers are explored after it.
StepMail(st, rn, t, uuids, files, sc, mails, counted, injected, result) ==
    /\ uuids <= MaxReports
    /\ files <= MaxFiles
    /\ store' = st
    /\ renderer' = rn
    /\ now' = t
    /\ nextUuid' = uuids
    /\ nextFile' = files
    /\ sched' = sc
    /\ relay' = mails
    /\ mat' = mat
    /\ LET same == <<st, rn, t, uuids, files, sc>>
                     = <<store, renderer, now, nextUuid, nextFile, sched>> IN
        /\ calls' = IF same \/ ~counted THEN calls ELSE calls + 1
        /\ ret' = [result EXCEPT !.leaf = same \/ injected]

\* A step that posts no mail.
Step(st, rn, t, uuids, files, sc, counted, injected, result) ==
    StepMail(st, rn, t, uuids, files, sc, relay, counted, injected, result)

\* Failures are injected into the calls of u1, and the invalid token comes
\* with requests that name no report or the first one.
Injects(tok, fail) == fail # "none" => tok = "u1"
Presents(tok, id) == tok = BadToken => id <= 1

\* A step inside a tick can be taken, and a handler can be called.
Ready == ~ret.leaf
Callable == Ready /\ calls < MaxCalls

Advance ==
    /\ now < MaxTime
    /\ Ready
    /\ now' = now + 1
    /\ ret' = [NoArgs EXCEPT !.op = "Advance"]
    /\ UNCHANGED <<store, renderer, nextUuid, nextFile, sched, relay, mat, calls>>

\* The uuids drawn once a SaveReportModel with this request and token ran.
Drawn(saves, req, tok) ==
    IF saves /\ jwtParse(tok).err = "" /\ calculateNextSchedule(req.cron, now).err = ""
    THEN nextUuid + 1 ELSE nextUuid

\* POST /report
Save ==
    /\ Callable
    /\ \E tok \in Users, dbFail \in BOOLEAN, name \in Names :
      \E cron \in UserCrons(tok) :
       \E rcv \in UserReceivers(tok, cron) :
        LET req == WithReceivers(SaveRequest(name, cron), rcv)
            r == SaveReportModel(store, req, tok, nextUuid + 1, now, now, dbFail) IN
            /\ dbFail => cron = ""
            /\ Step(r.store, renderer, now, Drawn(~dbFail, req, tok), nextFile, sched, TRUE, dbFail,
                    WithFault(WithRequest(Result("SaveReportModel", nextUuid + 1, tok, FALSE,
                                                 FALSE, r.err, <<>>), req),
                              IF dbFail THEN "write" ELSE "none"))

\* PUT /report
Update ==
    /\ Callable
    /\ \E tok \in Users, fail \in {"none", "get", "write"}, id \in ReqIds, name \in Names :
      \E cron \in UpdateCrons(tok), f \in FileChoices(store, id) :
        \E t2 \in Reads(cron, fail) :
          LET req == UpdateRequest(id, name, cron, f)
              r == UpdateReportModel(store, req, tok, now, t2, fail = "get", fail = "write") IN
            /\ fail # "none" => cron = ""
            /\ Injects(tok, fail)
            /\ fail = "get" => f.nil
            /\ Step(r.store, renderer, t2, nextUuid, nextFile, sched, TRUE, fail # "none",
                    WithFault(WithRequest(Result("UpdateReportModel", req.id, tok, FALSE,
                                                 req.filesNil, r.err, <<>>), req), fail))

\* GET /report/:id
Get ==
    /\ Callable
    /\ \E id \in ReqIds, tok \in Tokens :
        LET r == GetReportModel(store, id, tok, FALSE) IN
            /\ Presents(tok, id)
            /\ Step(store, renderer, now, nextUuid, nextFile, sched, TRUE, FALSE,
                 Result("GetReportModel", id, tok, FALSE, FALSE, r.err,
                        IF r.err = "" THEN <<r.report.id>> ELSE <<>>))

\* GET /report
List ==
    /\ Callable
    /\ \E tok \in Users, args \in ListArgs, admin \in BOOLEAN :
        LET r == GetReportModels(store, tok, args, admin, FALSE) IN
            /\ admin => ~args.hasSearch
            /\ Step(store, renderer, now, nextUuid, nextFile, sched, TRUE, FALSE,
                 Result("GetReportModels", NoId, tok, admin, args.hasSearch, r.err, r.reports))

\* DELETE /report/:id
Delete ==
    /\ Callable
    /\ \E id \in ReqIds, tok \in Users, admin \in BOOLEAN,
       fail \in {"none", "get", "write"}, failAt \in 0..MaxFiles :
        LET r == DeleteReport(store, renderer, id, tok, admin,
                              fail = "get", failAt, fail = "write") IN
            /\ fail # "none" => failAt = 0 /\ ~admin
            /\ Injects(tok, fail)
            /\ failAt # 0 => id \in DOMAIN store /\ failAt <= Len(store[id].reportFiles)
            /\ Step(r.store, r.renderer, now, nextUuid, nextFile, sched, TRUE,
                    fail # "none" \/ failAt # 0,
                    WithFault(Result("DeleteReport", id, tok, admin, FALSE, r.err, r.calls),
                              IF failAt # 0 THEN "renderer" ELSE fail))

\* DELETE /report/file/:reportId/:fileId
DeleteFile ==
    /\ Callable
    /\ \E id \in ReqIds, fileId \in 1..nextFile, tok \in Users,
       fail \in {"none", "get", "renderer", "get2", "write"} :
        LET r == DeleteCreatedReportFile(store, renderer, id, fileId, tok, now, now, fail) IN
            /\ Injects(tok, fail)
            /\ Step(r.store, r.renderer, now, nextUuid, nextFile, sched, TRUE, fail # "none",
                 WithFault(Result("DeleteCreatedReportFile", id, tok, FALSE, FALSE, r.err,
                                  <<fileId>>), fail))

\* GET /report/file/:reportId/:fileId
Download ==
    /\ Callable
    /\ \E id \in ReqIds, fileId \in 1..nextFile, tok \in Users,
       fail \in {"none", "renderer"} :
        LET r == DownloadReportFile(store, renderer, id, fileId, tok, fail) IN
            /\ Injects(tok, fail)
            /\ Step(store, renderer, now, nextUuid, nextFile, sched, TRUE, fail # "none",
                 WithFault(Result("DownloadReportFile", id, tok, FALSE, FALSE, r.err,
                                  r.content), fail))

\* POST /report/create
Create ==
    /\ Callable
    /\ \E tok \in Tokens, fail \in {"none", "get", "save", "data", "renderer", "write"},
         id \in {NoId} \cup ReqIds, name \in Names :
      \E cron \in IF id = NoId THEN UserCrons(tok) ELSE UpdateCrons(tok) :
        LET req == UpdateRequest(id, name, cron, NilFiles)
            r == CreateReportFile(store, renderer, req, tok, nextUuid + 1, nextFile + 1,
                                  now, now, fail) IN
            /\ fail # "none" => cron = ""
            /\ Injects(tok, fail)
            /\ Presents(tok, id)
            /\ Step(r.store, r.renderer, now, Drawn(r.implicit, req, tok),
                    IF r.created THEN nextFile + 1 ELSE nextFile, sched, TRUE, fail # "none",
                    WithFault(WithRequest(Result("CreateReportFile", req.id, tok, FALSE,
                                                 r.implicit, r.err,
                                                 IF r.created THEN <<nextFile + 1>> ELSE <<>>),
                                          req), fail))

\* RunScheduler: a tick and its Find.
SchedTick ==
    /\ Callable
    /\ sched.pc = "idle"
    /\ \E dbFail \in BOOLEAN :
        /\ Step(store, renderer, now, nextUuid, nextFile,
                IF dbFail THEN Stopped
                ELSE IF DueReports(store, now) = <<>> THEN Idle({})
                ELSE Loop(DueReports(store, now), {}),
                TRUE, FALSE,
                WithFault(Result("scheduler.tick", NoId, BadToken, FALSE, FALSE,
                                 IF dbFail THEN "Store" ELSE "",
                                 IF dbFail THEN <<>> ELSE SortIds(Due(store, now), FALSE)),
                          IF dbFail THEN "find" ELSE "none"))

\* cur.Next: the token exchange for the next report of the cursor and the
\* lookup of its CreateReportFile.
SchedLookup ==
    /\ Ready
    /\ sched.pc = "loop"
    /\ \E fail \in {"none", "exchange", "get", "save"} :
           LET report == Head(sched.queue)
               r == CreateReportFileLookup(store, report, report.userId, nextUuid + 1,
                                           now, now, fail = "get", fail = "save")
           IN
            IF fail = "exchange"
            THEN Step(store, renderer, now, nextUuid, nextFile, Stopped, FALSE, FALSE,
                      WithFault(Result("scheduler.lookup", report.id, report.userId, FALSE,
                                       FALSE, "Exchange", <<>>), fail))
            ELSE /\ fail = "save" => r.implicit
                 /\ Step(r.store, renderer, now, Drawn(r.implicit, report, report.userId),
                      nextFile,
                      IF r.err # "" THEN Stopped
                      ELSE Rendering(report, r.request, r.model, Tail(sched.queue), sched.ran),
                      FALSE, FALSE,
                      WithFault(Result("scheduler.lookup", report.id, report.userId, FALSE,
                                       r.implicit, r.err, <<>>), fail))

\* The rest of the scheduler's CreateReportFile: materialization, rendering
\* and the trailing update; then EmailReport, and the next report of the
\* cursor or the wait for the next tick.
SchedRender ==
    /\ Ready
    /\ sched.pc = "render"
    /\ \E fail \in {"none", "data", "renderer", "write", "download", "email"} :
        \E t2 \in Reads(sched.request.cron, fail) :
           LET tok == sched.request.userId
               rd == CreateReportFileRender(renderer, tok, nextFile + 1, fail)
               up == CreateReportFileUpdate(store, sched.request, sched.model, nextFile + 1,
                                            tok, now, t2, fail = "write")
               em == EmailReport(up.store, rd.renderer, relay, nextFile + 1, sched.report,
                                 tok, fail)
               ran == sched.ran \cup {sched.request.id}
           IN
            /\ fail \in {"download", "email"} => Len(sched.report.emailReceivers) > 0
            /\ IF rd.err # ""
               THEN Step(store, renderer, now, nextUuid, nextFile, Stopped, FALSE, FALSE,
                         WithFault(Result("scheduler.render", sched.request.id, tok, FALSE,
                                          FALSE, rd.err, <<>>), fail))
               ELSE StepMail(up.store, rd.renderer, t2, nextUuid, nextFile + 1,
                             IF up.err # "" \/ em.err # "" THEN Stopped
                             ELSE IF sched.queue = <<>> THEN Idle(ran)
                             ELSE Loop(sched.queue, ran),
                             IF up.err # "" THEN relay ELSE em.relay,
                             FALSE, FALSE,
                             WithFault(Result("scheduler.render", sched.request.id, tok, FALSE,
                                              sched.request.id \notin DOMAIN store,
                                              IF up.err # "" THEN up.err ELSE em.err,
                                              <<nextFile + 1>>), fail))

Next ==
    \/ Advance
    \/ Save
    \/ Update
    \/ Get
    \/ List
    \/ Delete
    \/ DeleteFile
    \/ Download
    \/ Create
    \/ SchedTick
    \/ SchedLookup
    \/ SchedRender

Spec == Init /\ [][Next]_vars

\* ------------------------------------------- materialization on its own
\* The materialization step of CreateReportFile for every data input, order
\* of the keys and set of failing upstream queries; the store, the renderer
\* and the scheduler are left as they start.
MaterializeInit ==
    /\ store = <<>>
    /\ renderer = {}
    /\ now = 1
    /\ nextUuid = 0
    /\ nextFile = 0
    /\ sched = Idle({})
    /\ relay = <<>>
    /\ calls = 0
    /\ ret = [NoArgs EXCEPT !.op = "init"]
    /\ \/ \E data \in DataInputs \cup DeepInputs, order \in RangeOrders,
             failing \in SUBSET {"q1", "d1"} :
             mat = Materialization("input", data, "u1", order, failing, NotWalked)
       \/ \E data \in Single(ScalarObjects \cup RollingObjects), failing \in {{}, {"q1"}} :
             mat = Materialization("input", data, "u1", KeyOrder, failing, NotWalked)
       \/ \E data \in ChildInputs, order \in RangeOrders :
             mat = Materialization("input", data, "u1", order, {}, NotWalked)
       \/ \E data \in DataInputs :
             mat = Materialization("input", data, BadToken, KeyOrder, {}, NotWalked)

\* reportData, err := r.setReportFileData(reportRequest.Data, ...)
Materialize ==
    /\ mat.pc = "input"
    /\ mat' = [mat EXCEPT !.pc = "walked",
                          !.out = setReportFileData(mat.data, mat.tok, mat.order, mat.failing)]
    /\ UNCHANGED <<store, renderer, now, nextUuid, nextFile, sched, relay, calls, ret>>

\* A nil pointer dereference inside setReportFileData: CreateReportFile
\* does not return, the panic goes up to its caller.
MaterializePanic ==
    /\ mat.pc = "walked"
    /\ mat.out.panic
    /\ mat' = [mat EXCEPT !.pc = "panicked"]
    /\ UNCHANGED <<store, renderer, now, nextUuid, nextFile, sched, relay, calls, ret>>

\* if err != nil { return }
MaterializeReturn ==
    /\ mat.pc = "walked"
    /\ ~mat.out.panic
    /\ mat.out.err # ""
    /\ mat' = [mat EXCEPT !.pc = "returned"]
    /\ UNCHANGED <<store, renderer, now, nextUuid, nextFile, sched, relay, calls, ret>>

\* r.Driver.CreateReport(..., reportData, ...)
MaterializeRender ==
    /\ mat.pc = "walked"
    /\ ~mat.out.panic
    /\ mat.out.err = ""
    /\ mat' = [mat EXCEPT !.pc = "rendered"]
    /\ UNCHANGED <<store, renderer, now, nextUuid, nextFile, sched, relay, calls, ret>>

\* err = r.UpdateReportModel(reportRequest, ...): reportRequest.Data is the
\* map the walk was given, with the time bounds the walk wrote into it.
MaterializeUpdate ==
    /\ mat.pc = "rendered"
    /\ mat' = [mat EXCEPT !.pc = "updated", !.stored = mat.out.input]
    /\ UNCHANGED <<store, renderer, now, nextUuid, nextFile, sched, relay, calls, ret>>

MaterializeNext ==
    \/ Materialize
    \/ MaterializePanic
    \/ MaterializeReturn
    \/ MaterializeRender
    \/ MaterializeUpdate

SpecMaterialize == MaterializeInit /\ [][MaterializeNext]_vars

\* The program with its scheduling: the clock advances, the ticker of
\* RunScheduler fires while the goroutine runs, and a run that has begun
\* goes on to its next call.
SpecFair ==
    /\ Spec
    /\ WF_vars(Advance)
    /\ WF_vars(SchedTick)
    /\ WF_vars(SchedLookup)
    /\ WF_vars(SchedRender)

\* ------------------------------------------------------------------ claims
\* The ids of a file list, in list order.
FileIdsOf(files) == [k \in 1..Len(files) |-> files[k].id]
IsPrefix(a, b) == Len(a) <= Len(b) /\ \A k \in 1..Len(a) : a[k] = b[k]
\* The documents a step inserted or changed.
Written == {id \in DOMAIN store' : id \notin DOMAIN store \/ store'[id] # store[id]}
\* Errors of the store and of the renderer, as opposed to those a request earns.
InfraErrors == {"Store", "Renderer", "Upstream", "Exchange", "Email"}
SchedulerOps == {"scheduler.tick", "scheduler.lookup", "scheduler.render"}

\* C1 as the spec states it: in every reachable store state every persisted
\* report with a non-empty cron has scheduledFor strictly greater than its
\* updatedAt, and scheduledFor is the next cron fire time after updatedAt.
C1_ScheduledAfterUpdatedAt ==
    \A id \in DOMAIN store :
        store[id].cron # "" =>
            /\ store[id].scheduledFor > store[id].updatedAt
            /\ store[id].scheduledFor = ScheduleNext(store[id].cron, store[id].updatedAt)

\* C1 amended: every write of a report with a non-empty cron (by
\* SaveReportModel, UpdateReportModel, CreateReportFile,
\* DeleteCreatedReportFile or a scheduled run) sets scheduledFor to what
\* schedule.Next returns for the instant the call read first: strictly later
\* than that instant for a cron with a fire time, the zero time for a cron
\* without one.  The stamp is read afterwards: SaveReportModel stamps
\* createdAt and leaves updatedAt as the request had it, UpdateReportModel
\* stamps updatedAt, which is not earlier than the instant scheduledFor was
\* computed from.
C1_ScheduledFromWriteInstant ==
    [][\A id \in Written :
          store'[id].cron # "" =>
              /\ store'[id].scheduledFor = ScheduleNext(store'[id].cron, now)
              /\ store'[id].cron \in PeriodicCrons => store'[id].scheduledFor > now
              /\ store'[id].cron = NeverCron => store'[id].scheduledFor = ZeroTime
              /\ now <= now'
              /\ \/ store'[id].updatedAt = now'
                 \/ store'[id].createdAt = now'
      ]_vars

\* C1 witness: an UpdateReportModel whose second clock read fell on the fire
\* time wrote a scheduled report whose scheduledFor is not later than its
\* updatedAt.
C1_UpdateStampedAtFireTime ==
    /\ ret.op = "UpdateReportModel"
    /\ ret.err = ""
    /\ ret.id \in DOMAIN store
    /\ store[ret.id].cron \in PeriodicCrons
    /\ store[ret.id].scheduledFor = store[ret.id].updatedAt

\* C2: in every reachable store state a persisted report whose cron is empty
\* has no scheduledFor, so it is due at no instant and no tick's cursor
\* holds it.
C2_EmptyCronUnscheduled ==
    /\ \A id \in DOMAIN store :
          store[id].cron = "" =>
              /\ store[id].scheduledFor = Nil
              /\ \A t \in 1..MaxTime : id \notin Due(store, t)
    /\ ret.op = "scheduler.tick" =>
          \A k \in 1..Len(ret.out) : store[ret.out[k]].cron # ""
    /\ sched.pc = "loop" => \A k \in 1..Len(sched.queue) : sched.queue[k].cron # ""

\* C2 witness: a tick found due reports and passed over a stored report that
\* an update had written with an empty cron.
C2_TickPassesOverUnscheduled ==
    /\ ret.op = "scheduler.tick"
    /\ ret.out # <<>>
    /\ \E id \in DOMAIN store :
          /\ store[id].cron = ""
          /\ store[id].updatedAt # ZeroTime
          /\ \A k \in 1..Len(ret.out) : ret.out[k] # id

\* C3 as the spec states it: UpdateReportModel with the token of a user who
\* does not own the stored record of that id returns an error and leaves the
\* store unchanged, with reportFiles supplied and with reportFiles nil.
C3_NonOwnerUpdateRejected ==
    [][(/\ ret'.op = "UpdateReportModel"
        /\ ret'.tok \in Users
        /\ ret'.id \in DOMAIN store
        /\ store[ret'.id].userId # ret'.tok)
          => (ret'.err # "" /\ store' = store)
      ]_vars

\* C4 as the spec states it: DeleteReport with admin=false removes the report
\* only for its owner; with admin=true it removes the report whoever owns it
\* (unless the store or the renderer fails).
C4_DeleteOwnershipUnlessAdmin ==
    [][(ret'.op = "DeleteReport" /\ ret'.tok \in Users /\ ret'.id \in DOMAIN store) =>
          /\ (~ret'.admin /\ store[ret'.id].userId # ret'.tok)
                => (ret'.err # "" /\ store' = store /\ renderer' = renderer)
          /\ (ret'.admin /\ ret'.err \notin InfraErrors)
                => (ret'.err = "" /\ ret'.id \notin DOMAIN store')
      ]_vars

\* C5: non-admin reads are scoped to the caller.  GetReportModel returns a
\* report only to its owner, and answers another user exactly as it answers
\* for an id that is not stored; the filter of GetReportModels with
\* admin=false selects only the caller's reports, with and without a search
\* argument, and what GetReportModels returns is selected by its filter.
C5_ReadsScopedToCaller ==
    /\ \A tok \in Users, id \in Ids :
          LET r == GetReportModel(store, id, tok, FALSE) IN
            /\ r.err = "" => (id \in DOMAIN store /\ r.report = store[id]
                              /\ r.report.userId = tok)
            /\ (id \in DOMAIN store /\ store[id].userId # tok) =>
                  (r.err = "NotFound" /\ r = GetReportModel(Remove(store, id), id, tok, FALSE))
    /\ \A tok \in Users, args \in AllListArgs :
          \A id \in ListFilter(store, jwtParse(tok).userId, args, FALSE) :
              store[id].userId = tok
    /\ \A tok \in Users, args \in ListArgs :
          LET r == GetReportModels(store, tok, args, FALSE, FALSE) IN
            \A k \in 1..Len(r.reports) :
                /\ r.reports[k] \in ListFilter(store, jwtParse(tok).userId, args, FALSE)
                /\ store[r.reports[k]].userId = tok
    /\ (ret.op = "GetReportModels" /\ ~ret.admin) =>
          \A k \in 1..Len(ret.out) : store[ret.out[k]].userId = ret.tok
    /\ (ret.op = "GetReportModel" /\ ret.err = "") => store[ret.id].userId = ret.tok

\* C5 witness: a non-admin list with a search argument returned the caller's
\* report while a report of another user was stored.
C5_SearchReturnsOwnOnly ==
    /\ ret.op = "GetReportModels"
    /\ ~ret.admin
    /\ ret.flag
    /\ ret.out # <<>>
    /\ \E id \in DOMAIN store : store[id].userId # ret.tok

\* C6 as the spec states it: the ReportFile entries of a stored report are
\* appended in creation order and leave the stored list only through
\* DeleteCreatedReportFile or DeleteReport: across every other step the
\* report stays stored and its old list is a prefix of its new list.
C6_FilesLeaveOnlyByDelete ==
    [][ret'.op \notin {"DeleteCreatedReportFile", "DeleteReport"} =>
          \A id \in DOMAIN store :
              /\ id \in DOMAIN store'
              /\ IsPrefix(FileIdsOf(store[id].reportFiles),
                          FileIdsOf(store'[id].reportFiles))
      ]_vars

\* C7: DeleteReport issues the renderer deletes in list order and removes
\* the model only after all of them succeeded; a failing renderer delete
\* leaves the model stored and is returned; after a successful DeleteReport
\* the store does not return the report and none of its ReportFiles is at
\* the renderer.
C7_ModelRemovedAfterRendererDeletes ==
    [][(ret'.op = "DeleteReport" /\ ret'.id \in DOMAIN store) =>
          LET files == FileIdsOf(store[ret'.id].reportFiles) IN
            /\ IsPrefix(ret'.out, files)
            /\ ret'.id \notin DOMAIN store' =>
                  /\ ret'.err = ""
                  /\ ret'.out = files
            /\ ret'.err = "Renderer" => store' = store
            /\ ret'.err = "" =>
                  /\ ret'.id \notin DOMAIN store'
                  /\ GetReportModel(store', ret'.id, ret'.tok, FALSE).err = "NotFound"
                  /\ \A k \in 1..Len(files) : files[k] \notin renderer'
      ]_vars

\* C7 witness: a DeleteReport of a report with two ReportFiles succeeded
\* after two renderer deletes.
C7_DeletedWithTwoFiles ==
    /\ ret.op = "DeleteReport"
    /\ ret.err = ""
    /\ Len(ret.out) = 2
    /\ ret.id \notin DOMAIN store

\* C8: while a scheduled CreateReportFile of a report is between its lookup
\* and its trailing update, a DeleteReport of the owner removes the record,
\* and the trailing UpdateReportModel of the run, finding no record of that
\* id, inserts the report again with the file list of the lookup and the new
\* ReportFile.
C8_TrailingUpdateReinserts ==
    [][sched.pc = "render" =>
          /\ (ret'.op = "DeleteReport" /\ ret'.err = "") =>
                (ret'.id \notin DOMAIN store' /\ sched' = sched)
          /\ (/\ ret'.op = "scheduler.render"
              /\ ret'.err = ""
              /\ sched.request.id \notin DOMAIN store) =>
                /\ sched.request.id \in DOMAIN store'
                /\ store'[sched.request.id].userId = sched.request.userId
                /\ FileIdsOf(store'[sched.request.id].reportFiles)
                      = Append(FileIdsOf(sched.model.reportFiles), nextFile')
      ]_vars

\* C8 witness: the trailing update of a scheduled run found no record of its
\* report and the report is stored after it.
C8_ReappearedAfterDelete ==
    /\ ret.op = "scheduler.render"
    /\ ret.err = ""
    /\ ret.flag
    /\ ret.id \in DOMAIN store
    /\ store[ret.id].reportFiles # <<>>

\* C9 as the spec states it: every report of a tick's cursor is processed:
\* the run is a run of that report, it appends exactly one ReportFile to the
\* stored report and sets scheduledFor to a fire time after the processing
\* instant, and the scheduler goes on to the next report.
C9_EveryDueReportGetsItsFile ==
    [][/\ (sched.pc = "loop" /\ ret'.op = "scheduler.lookup") =>
              /\ sched'.pc = "render"
              /\ sched'.request.id = Head(sched.queue).id
       /\ (sched.pc = "render" /\ ret'.op = "scheduler.render") =>
              /\ sched'.pc \in {"loop", "idle"}
              /\ sched.request.id \in DOMAIN store'
              /\ store'[sched.request.id].scheduledFor > now'
      ]_vars

\* C9 amended: a tick's cursor holds exactly the reports with scheduledFor
\* before the tick's instant, and the tick changes nothing in
\* the store; the reports are processed one after the other until the first
\* error, which ends RunScheduler.  A run looks its report up: it continues
\* with the stored record, or, when the lookup returns none (the record is
\* gone, or the store fails), with a copy saved under a new id.  A run that completes creates one artifact and writes one
\* record: that of its id, with the file list of its lookup plus the new
\* ReportFile and with scheduledFor as calculateNextSchedule returns it for
\* the instant of the trailing update (the zero time for a cron without fire
\* time); every other record is left as it was.
C9_TickProcessesCursorUntilError ==
    [][/\ ret'.op = "scheduler.tick" =>
              /\ store' = store /\ renderer' = renderer
              /\ ret'.err = "" =>
                    /\ ret'.out = SortIds(Due(store, now), FALSE)
                    /\ \A k \in 1..Len(ret'.out) : store[ret'.out[k]].scheduledFor < now
                    /\ IF ret'.out = <<>> THEN sched'.pc = "idle"
                       ELSE /\ sched'.pc = "loop"
                            /\ sched'.queue = [k \in 1..Len(ret'.out) |-> store[ret'.out[k]]]
       /\ (sched.pc = "loop" /\ ret'.op = "scheduler.lookup" /\ ret'.err = "") =>
              LET due == Head(sched.queue)
                  found == due.id \in DOMAIN store /\ store[due.id].userId = due.userId
              IN  /\ sched'.pc = "render"
                  /\ sched'.queue = Tail(sched.queue)
                  /\ renderer' = renderer
                  /\ ~found => ret'.flag
                  /\ IF ret'.flag
                     THEN /\ sched'.request.id \notin DOMAIN store
                          /\ \A other \in DOMAIN store : store'[other] = store[other]
                     ELSE sched'.request.id = due.id /\ store' = store
       /\ (sched.pc = "render" /\ ret'.op = "scheduler.render" /\ ret'.err = "") =>
              LET id == sched.request.id IN
                  /\ renderer' = renderer \cup {nextFile'}
                  /\ nextFile' = nextFile + 1
                  /\ DOMAIN store' = DOMAIN store \cup {id}
                  /\ \A other \in DOMAIN store \ {id} : store'[other] = store[other]
                  /\ FileIdsOf(store'[id].reportFiles)
                        = Append(FileIdsOf(sched.model.reportFiles), nextFile')
                  /\ store'[id].scheduledFor
                        = calculateNextSchedule(sched.request.cron, now).ts
                  /\ sched'.pc = IF sched.queue = <<>> THEN "idle" ELSE "loop"
       /\ (ret'.op \in SchedulerOps /\ ret'.err # "") => sched' = Stopped
       /\ (sched # Stopped /\ sched' = Stopped) => (ret'.op \in SchedulerOps /\ ret'.err # "")
      ]_vars

\* C9 witness: one tick processed two due reports, one after the other.
C9_TwoReportsProcessed ==
    /\ ret.op = "scheduler.render"
    /\ ret.err = ""
    /\ sched.pc = "idle"
    /\ Cardinality(sched.ran) = 2
    /\ \A id \in sched.ran : id \in DOMAIN store /\ store[id].reportFiles # <<>>

\* C10 as the spec states it: a report with a cron that has fire times,
\* written by a scheduled run of the latest tick, is not due at the tick
\* that follows, whatever the time between the two ticks.
C10_NotDueAtFollowingTick ==
    [][(ret'.op = "scheduler.tick" /\ ret'.err = "") =>
          \A id \in sched.ran :
              (id \in DOMAIN store /\ store[id].cron \in PeriodicCrons)
                  => id \notin Due(store, now)
      ]_vars

\* C10 amended: a scheduled run of a report whose cron has fire times leaves
\* scheduledFor strictly later than the instant the run computed it at, so
\* the report is not due at any instant up to its new scheduledFor; it is due
\* at every later instant, and so at the following tick when that tick comes
\* after the cron's next fire.  For a cron without fire time the run leaves
\* the zero time, and the report is due at once.
C10_NotDueUntilNextFire ==
    [][(sched.pc = "render" /\ ret'.op = "scheduler.render" /\ ret'.err = "") =>
          LET id == sched.request.id
              d == store'[id]
          IN  /\ d.cron \in PeriodicCrons =>
                    /\ d.scheduledFor > now
                    /\ \A t \in 1..(MaxTime + 1) :
                          id \in Due(store', t) <=> t > d.scheduledFor
              /\ d.cron = NeverCron => id \in Due(store', now')
      ]_vars

\* C10 witness: a scheduled run wrote a report with a periodic cron, and its
\* scheduledFor is later than the clock.
C10_RunAdvancedSchedule ==
    /\ ret.op = "scheduler.render"
    /\ ret.err = ""
    /\ ret.id \in DOMAIN store
    /\ store[ret.id].cron \in PeriodicCrons
    /\ store[ret.id].scheduledFor > now

\* The operations served over HTTP.
HandlerOps ==
    {"SaveReportModel", "UpdateReportModel", "GetReportModel", "GetReportModels",
     "DeleteReport", "DeleteCreatedReportFile", "DownloadReportFile", "CreateReportFile"}

\* C11 as the spec states it: an error inside the scheduler loop (the Find of
\* a tick, the token exchange, CreateReportFile, the mail) makes RunScheduler
\* return, after which no report is processed, in this tick or a later one,
\* and the process no longer serves requests.
C11_SchedulerErrorIsFatal ==
    [][/\ (ret'.op \in SchedulerOps /\ ret'.err # "") => sched' = Stopped
       /\ sched = Stopped =>
              /\ sched' = Stopped
              /\ ret'.op \notin SchedulerOps
              /\ ret'.op \notin HandlerOps
      ]_vars

\* C12 as the spec states it: CreateReportFile saves the request as a new
\* record only when the store holds no record of the request's id for the
\* caller (the lookup reports NotFound); a lookup that fails otherwise is
\* returned, and nothing is saved or rendered.
C12_ImplicitSaveOnlyOnNotFound ==
    [][ret'.op = "CreateReportFile" =>
          LET lookup == GetReportModel(store, ret'.id, ret'.tok, FALSE) IN
            /\ lookup.err # "NotFound" => DOMAIN store' = DOMAIN store
            /\ lookup.err = "Token" =>
                  (ret'.err # "" /\ store' = store /\ renderer' = renderer)
      ]_vars

\* C13 as the spec states it: a request with a cron expression that does not
\* parse is answered with the cron error, and nothing is stored or rendered:
\* by SaveReportModel, by UpdateReportModel, and by CreateReportFile for an
\* id of which the caller has no stored record.
C13_InvalidCronRejected ==
    [][(/\ ret'.op \in {"SaveReportModel", "UpdateReportModel", "CreateReportFile"}
        /\ ret'.tok \in Users
        /\ ret'.req.cron \notin {""} \cup ValidCrons
        /\ ret'.op = "CreateReportFile" =>
               GetReportModel(store, ret'.id, ret'.tok, FALSE).err = "NotFound")
          => /\ ret'.err = "Cron"
             /\ store' = store
             /\ renderer' = renderer
      ]_vars

\* C14: a successful CreateReportFile on an existing report leaves the stored
\* reportFiles equal to the previously stored list followed by one new entry
\* for the artifact the renderer just created, and leaves createdAt as it
\* was.  For a scheduled run the previously stored list and createdAt are
\* those its lookup returned.
C14_CreateAppendsOneFile ==
    [][/\ (ret'.op = "CreateReportFile" /\ ret'.err = "" /\ ~ret'.flag) =>
              LET id == ret'.id
                  new == nextFile'
              IN  /\ id \in DOMAIN store /\ id \in DOMAIN store'
                  /\ new = nextFile + 1
                  /\ new \notin renderer
                  /\ renderer' = renderer \cup {new}
                  /\ ret'.out = <<new>>
                  /\ store'[id].reportFiles
                        = Append(store[id].reportFiles, ReportFile(new, LinkOf(new)))
                  /\ store'[id].createdAt = store[id].createdAt
       /\ (sched.pc = "render" /\ ret'.op = "scheduler.render" /\ ret'.err = "") =>
              LET id == sched.request.id
                  new == nextFile'
              IN  /\ new \notin renderer
                  /\ renderer' = renderer \cup {new}
                  /\ store'[id].reportFiles
                        = Append(sched.model.reportFiles, ReportFile(new, LinkOf(new)))
                  /\ store'[id].createdAt = sched.model.createdAt
      ]_vars

\* C14 witness: a CreateReportFile of a user appended a second ReportFile to
\* a stored report that was created at an earlier instant.
C14_SecondFileAppended ==
    /\ ret.op = "CreateReportFile"
    /\ ret.err = ""
    /\ ~ret.flag
    /\ ret.id \in DOMAIN store
    /\ Len(store[ret.id].reportFiles) = 2
    /\ store[ret.id].createdAt # ZeroTime
    /\ store[ret.id].createdAt < now

\* C15: UpdateReportModel with reportFiles nil on a stored report of the
\* caller, the store serving, writes the request with the stored reportFiles
\* and createdAt, the caller as userId, updatedAt read from the clock and
\* scheduledFor computed from the request's cron.
C15_NilFilesPreserved ==
    [][(/\ ret'.op = "UpdateReportModel"
        /\ ret'.flag
        /\ ret'.fault = "none"
        /\ ret'.id \in DOMAIN store
        /\ store[ret'.id].userId = ret'.tok
        /\ ret'.req.cron \in {""} \cup ValidCrons)
          => LET id == ret'.id
                 old == store[id]
             IN  /\ ret'.err = ""
                 /\ DOMAIN store' = DOMAIN store
                 /\ \A other \in DOMAIN store \ {id} : store'[other] = store[other]
                 /\ store'[id].reportFiles = old.reportFiles
                 /\ store'[id].createdAt = old.createdAt
                 /\ store'[id].name = ret'.req.name
                 /\ store'[id].cron = ret'.req.cron
                 /\ store'[id].userId = ret'.tok
                 /\ store'[id].updatedAt = now'
                 /\ store'[id].scheduledFor = calculateNextSchedule(ret'.req.cron, now).ts
      ]_vars

\* C15 witness: an update without reportFiles changed the cron of a report
\* that holds a ReportFile and was created at a known instant.
C15_UpdatedKeepingFiles ==
    /\ ret.op = "UpdateReportModel"
    /\ ret.flag
    /\ ret.err = ""
    /\ ret.id \in DOMAIN store
    /\ store[ret.id].reportFiles # <<>>
    /\ store[ret.id].createdAt # ZeroTime
    /\ store[ret.id].cron \in PeriodicCrons
    /\ store[ret.id].updatedAt > store[ret.id].createdAt

\* C16 as the spec states it: UpdateReportModel upserts by (id, userId).  An
\* update that returns success has written the request under the caller's
\* userId, also when no record of the id was stored, with reportFiles
\* supplied and with reportFiles nil.
C16_UpdateUpserts ==
    [][(ret'.op = "UpdateReportModel" /\ ret'.tok \in Users /\ ret'.err = "") =>
          /\ ret'.id \in DOMAIN store'
          /\ store'[ret'.id].userId = ret'.tok
          /\ store'[ret'.id].name = ret'.req.name
          /\ store'[ret'.id].cron = ret'.req.cron
          /\ store'[ret'.id].updatedAt = now'
      ]_vars

\* C17: for every stored report of the caller, UpdateReportModel applied to
\* the report GetReportModel returns writes the stored record back with
\* nothing changed but updatedAt and scheduledFor: id, userId, name, cron,
\* createdAt and reportFiles with the link of each file are as they were, and
\* no other record changes.  DeleteCreatedReportFile for a file id the report
\* does not list is this composition, and changes the record no further
\* when the store serves.
\* (The report is passed on as GetReportModel returned it; the JSON form of
\* GET /report/:id does not carry the links.)
C17_UpdateOfGetIsNoOp ==
    [][/\ \A id \in DOMAIN store, t2 \in SecondReads :
              LET tok == store[id].userId
                  got == GetReportModel(store, id, tok, FALSE)
                  upd == UpdateReportModel(store, got.report, tok, now, t2, FALSE, FALSE)
              IN  /\ got.err = "" /\ upd.err = ""
                  /\ upd.store = [store EXCEPT ![id] =
                        [store[id] EXCEPT
                            !.updatedAt = t2,
                            !.scheduledFor = calculateNextSchedule(store[id].cron, now).ts]]
       /\ (/\ ret'.op = "DeleteCreatedReportFile"
           /\ ret'.err = ""
           /\ ret'.fault = "none"
           /\ ret'.id \in DOMAIN store
           /\ \A k \in 1..Len(store[ret'.id].reportFiles) :
                  store[ret'.id].reportFiles[k].id # ret'.out[1])
             => store' = [store EXCEPT ![ret'.id] =
                    [store[ret'.id] EXCEPT
                        !.updatedAt = now',
                        !.scheduledFor = calculateNextSchedule(store[ret'.id].cron, now).ts]]
      ]_vars

\* C17 witness: a DeleteCreatedReportFile for a file the report does not list
\* read a report with a ReportFile and wrote it back at a later instant.
C17_WrittenBackWithLinks ==
    /\ ret.op = "DeleteCreatedReportFile"
    /\ ret.err = ""
    /\ ret.fault = "none"
    /\ ret.id \in DOMAIN store
    /\ store[ret.id].reportFiles # <<>>
    /\ \A k \in 1..Len(store[ret.id].reportFiles) :
          /\ store[ret.id].reportFiles[k].id # ret.out[1]
          /\ store[ret.id].reportFiles[k].link = LinkOf(store[ret.id].reportFiles[k].id)
    /\ store[ret.id].updatedAt = now
    /\ store[ret.id].createdAt < now

\* C18: deleting a report file is idempotent.  After a DeleteCreatedReportFile
\* that succeeded, the same call succeeds again (the artifact being absent at
\* the renderer is not an error) and leaves the stored reportFiles of every
\* report and the renderer as the first call left them.
C18_FileDeleteIdempotent ==
    [][/\ (ret'.op = "DeleteCreatedReportFile" /\ ret'.err = "" /\ ret'.fault = "none") =>
              \A t \in now'..MaxTime :
                  LET again == DeleteCreatedReportFile(store', renderer', ret'.id, ret'.out[1],
                                                       ret'.tok, t, t, "none")
                  IN  /\ again.err = ""
                      /\ again.renderer = renderer'
                      /\ DOMAIN again.store = DOMAIN store'
                      /\ \A id \in DOMAIN store' :
                            /\ again.store[id].reportFiles = store'[id].reportFiles
                            /\ again.store[id].filesNil = store'[id].filesNil
       /\ (/\ ret.op = "DeleteCreatedReportFile" /\ ret.err = "" /\ ret.fault = "none"
           /\ ret'.op = "DeleteCreatedReportFile" /\ ret'.fault = "none"
           /\ <<ret'.id, ret'.out, ret'.tok>> = <<ret.id, ret.out, ret.tok>>)
             => /\ ret'.err = ""
                /\ renderer' = renderer
                /\ DOMAIN store' = DOMAIN store
                /\ \A id \in DOMAIN store : store'[id].reportFiles = store[id].reportFiles
      ]_vars

\* C18 witness: a DeleteCreatedReportFile succeeded for a file that an
\* earlier delete had already taken from the report's list and from the
\* renderer, and changed nothing.
C18_DeletedTwice ==
    /\ ret.op = "DeleteCreatedReportFile"
    /\ ret.err = ""
    /\ ret.fault = "none"
    /\ ret.leaf
    /\ ret.out[1] \notin renderer
    /\ ret.id \in DOMAIN store
    /\ store[ret.id].reportFiles = <<>>
    /\ ~store[ret.id].filesNil

\* C19 as the spec states it: a scheduled run whose CreateReportFile
\* succeeded posts no mail and raises no error when the report has no
\* emailReceivers; when it has some it posts exactly one mail, to these
\* receivers, with the artifact just created attached, and the new
\* ReportFile is stored by then; an error of the relay ends RunScheduler.
\* No other step posts a mail.
C19_OneMailPerScheduledRun ==
    [][/\ (/\ sched.pc = "render" /\ ret'.op = "scheduler.render"
           /\ ret'.fault \in {"none", "email"}) =>
              LET id == sched.request.id
                  new == nextFile'
                  receivers == sched.report.emailReceivers
              IN  /\ receivers = <<>> => (relay' = relay /\ ret'.err = "")
                  /\ (receivers # <<>> /\ ret'.fault = "none") =>
                        /\ ret'.err = ""
                        /\ relay' = Append(relay, Mail(receivers, new, <<new>>))
                        /\ id \in DOMAIN store'
                        /\ \E k \in 1..Len(store'[id].reportFiles) :
                              store'[id].reportFiles[k].id = new
                  /\ ret'.fault = "email" =>
                        (ret'.err = "Email" /\ sched' = Stopped /\ relay' = relay)
       /\ relay' # relay => ret'.op = "scheduler.render"
      ]_vars

\* C20 as the spec states it: materialization is all-or-nothing.  When an
\* upstream query issued during the walk fails (a time-series query or a
\* device query, at any depth and under any key), setReportFileData returns
\* an error, and CreateReportFile does not hand data to the renderer.
C20_MaterializationAllOrNothing ==
    (mat.pc \in {"walked", "returned", "rendered", "updated"} /\ ~mat.out.panic
        /\ mat.out.called \cap mat.failing # {})
        => (mat.out.err # "" /\ mat.pc \notin {"rendered", "updated"})

\* C21 as the spec states it: the rolling rewrite of query.time.start and
\* query.time.end is not persisted.  After CreateReportFile has written the
\* report back, the data of the stored report, its query time bounds
\* included, is the data the user stored.
C21_RewriteNotPersisted ==
    mat.pc = "updated" => mat.stored = mat.data

\* The maps inside a materialized value that are empty.
RECURSIVE HasEmptyObject(_)
HasEmptyObject(m) ==
    \E k \in DOMAIN m :
        \/ m[k].kind = "map" /\ (DOMAIN m[k].map = {} \/ HasEmptyObject(m[k].map))
        \/ m[k].kind = "list" /\ \E i \in 1..Len(m[k].items) :
              m[k].items[i].kind = "map" /\ DOMAIN m[k].items[i].map = {}

\* C22: an object whose fields materialize to an empty map is omitted, at
\* every depth.  When the walk returns without error, the data handed to
\* the renderer holds no empty map under any key, and an object of the
\* request is a key of the result exactly when its fields gave something.
C22_EmptyObjectOmitted ==
    (mat.pc \in {"walked", "rendered", "updated"} /\ ~mat.out.panic /\ mat.out.err = "")
        => /\ ~HasEmptyObject(mat.out.data)
           /\ \A k \in DOMAIN mat.data :
                 mat.data[k].valueType = "object" =>
                    (k \in DOMAIN mat.out.data <=>
                        DOMAIN setReportFileData(mat.data[k].fields, mat.tok,
                                                 mat.order, mat.failing).data # {})

\* An object inside an object gave nothing and was left out, while the
\* object around it and the literal next to it are in the result.
C22_InnerObjectLeftOut ==
    /\ mat.pc = "rendered"
    /\ DOMAIN mat.data = {"0", "1"}
    /\ mat.data["0"].valueType = "object"
    /\ DOMAIN mat.data["0"].fields = {"0", "1"}
    /\ mat.data["0"].fields["0"].valueType = "object"
    /\ DOMAIN mat.data["0"].fields["0"].fields # {}
    /\ DOMAIN mat.out.data = {"0", "1"}
    /\ DOMAIN mat.out.data["0"].map = {"1"}

\* The sequences that list every value of the map m once, in an order in
\* which the integer values of the keys ascend.
InAscendingKeyOrder(m, items) ==
    /\ Len(items) = Cardinality(DOMAIN m)
    /\ \E ks \in [1..Len(items) -> DOMAIN m] :
          /\ \A i, j \in 1..Len(items) : i < j => (ks[i] # ks[j] /\ Atoi(ks[i]) <= Atoi(ks[j]))
          /\ \A i \in 1..Len(items) : items[i] = m[ks[i]]

\* C23 as the spec states it: an array resolved through children
\* materializes as the sequence of its materialized children, ordered by the
\* ascending integer value of their keys, and the key is omitted when no
\* child yields a value.
C23_ChildrenInIntegerOrder ==
    \A k \in DOMAIN mat.data :
        (/\ mat.pc \in {"walked", "rendered", "updated"}
         /\ ~mat.out.panic /\ mat.out.err = ""
         /\ mat.data[k].valueType = "array" /\ mat.data[k].value = Nil
         /\ DOMAIN mat.data[k].children # {})
        => LET arrayData == setReportFileData(mat.data[k].children, mat.tok,
                                              mat.order, mat.failing).data
           IN  IF DOMAIN arrayData = {} THEN k \notin DOMAIN mat.out.data
               ELSE /\ k \in DOMAIN mat.out.data
                    /\ mat.out.data[k].kind = "list"
                    /\ InAscendingKeyOrder(arrayData, mat.out.data[k].items)

\* The nodes of the request that are resolved by a time-series query the
\* service answers: a scalar or an array without value and children.
AnsweredQueries ==
    {k \in DOMAIN mat.data :
        /\ mat.data[k].valueType \in ScalarTypes \cup {"array"}
        /\ mat.data[k].value = Nil /\ DOMAIN mat.data[k].children = {}
        /\ mat.data[k].query # "" /\ mat.data[k].query \notin mat.failing}

\* C24 as the spec states it: a scalar resolves by first match.  For a
\* request of one scalar, after the walk: a present value is emitted as the
\* literal, also next to a query; otherwise a present query that is answered
\* emits the first element of the answer with nulls replaced by 0, and
\* nothing when the answer is empty; with neither the key is omitted; and
\* none of these raises an error.
C24_ScalarFirstMatch ==
    \A k \in DOMAIN mat.data :
        (/\ mat.pc \in {"walked", "panicked", "returned", "rendered", "updated"}
         /\ mat.tok \in Users
         /\ DOMAIN mat.data = {k}
         /\ mat.data[k].valueType \in ScalarTypes)
        => LET v == mat.data[k]
               answer == filterQueryValues(QueryResponse(v.query))
           IN  /\ v.value # Nil =>
                     (/\ ~mat.out.panic /\ mat.out.err = ""
                      /\ mat.out.data = [j \in {k} |-> ScalarValue(v.value)])
               /\ (v.value = Nil /\ k \in AnsweredQueries) =>
                     (/\ ~mat.out.panic /\ mat.out.err = ""
                      /\ mat.out.data = IF Len(answer) > 0 THEN [j \in {k} |-> answer[1]]
                                        ELSE EmptyMap)
               /\ (v.value = Nil /\ v.query = "") =>
                     (~mat.out.panic /\ mat.out.err = "" /\ mat.out.data = EmptyMap)

\* C25 as the spec states it: queryOptions and its fields are optional.  A
\* node with a query that is answered is materialized without error and
\* without an abnormal end whether or not it has queryOptions, and a bound
\* that rolls without an offset is rewritten with the offset 0.
C25_QueryOptionsOptional ==
    \A k \in AnsweredQueries :
        (mat.pc \in {"walked", "panicked", "returned", "rendered", "updated"}
         /\ mat.tok \in Users /\ DOMAIN mat.data = {k})
        => LET v == mat.data[k]
               o == v.queryOptions
               zero(offset) == IF offset = Nil THEN 0 ELSE offset
           IN  /\ ~mat.out.panic
               /\ mat.out.err = ""
               /\ (~o.nil /\ o.rollingStartDate # "" /\ v.start # NilDate) =>
                     mat.out.input[k].start =
                        RollDate(v.start, o.rollingStartDate, zero(o.startOffset))
               /\ (~o.nil /\ o.rollingEndDate # "" /\ v.end # NilDate) =>
                     mat.out.input[k].end =
                        RollDate(v.end, o.rollingEndDate, zero(o.endOffset))

\* The file ids listed in the reports of a store.
ListedFiles(st) ==
    UNION {{st[i].reportFiles[k].id : k \in 1..Len(st[i].reportFiles)} : i \in DOMAIN st}

\* C26 as the spec states it: CreateReportFile is atomic on failure.  When
\* a CreateReportFile request is answered with an error, the store holds no
\* record it did not hold before, and the renderer holds no new artifact
\* that no stored report lists.
C26_CreateAtomicOnFailure ==
    [][(ret'.op = "CreateReportFile" /\ ret'.err # "") =>
          /\ DOMAIN store' \subseteq DOMAIN store
          /\ (renderer' \ renderer) \subseteq ListedFiles(store')
      ]_vars

\* C27 as the spec states it: referential integrity of the file pointers.
\* In every reachable state every ReportFile id listed in a stored report
\* is the id of an artifact the renderer holds.
C27_ListedFilesExist ==
    ListedFiles(store) \subseteq renderer

\* The file ids of the report id as the caller tok owns it in st: none when
\* the report is not there or is another user's.
OwnFiles(st, id, tok) ==
    IF id \in DOMAIN st /\ st[id].userId = tok
    THEN {st[id].reportFiles[k].id : k \in 1..Len(st[id].reportFiles)}
    ELSE {}

\* C28 as the spec states it: file access is bound to report ownership.
\* DownloadReportFile(reportId, fileId) returns content, and
\* DeleteCreatedReportFile(reportId, fileId) deletes an artifact at the
\* renderer, only for a fileId listed in reportFiles of the report reportId
\* owned by the caller.
C28_FileAccessBoundToReport ==
    [][/\ (ret'.op = "DownloadReportFile" /\ ret'.out # <<>>) =>
              ret'.out[1] \in OwnFiles(store, ret'.id, ret'.tok)
       /\ ret'.op = "DeleteCreatedReportFile" =>
              (renderer \ renderer') \subseteq OwnFiles(store, ret'.id, ret'.tok)
      ]_vars

\* C29 as the spec states it: a user's UpdateReportModel that succeeds
\* while a scheduled execution of the same report is in flight (after the
\* scheduler read the report from its cursor and looked it up, before its
\* trailing update) is not reverted.  When that execution finishes, the
\* stored cron, name and email receivers are those the user wrote.
C29_UserUpdateNotReverted ==
    [][(/\ sched.pc = "render"
        /\ ret.op = "UpdateReportModel" /\ ret.err = "" /\ ret.id = sched.request.id
        /\ ret.id \in DOMAIN store
        /\ ret'.op = "scheduler.render" /\ ret'.err = "")
          => /\ ret.id \in DOMAIN store'
             /\ store'[ret.id].cron = store[ret.id].cron
             /\ store'[ret.id].name = store[ret.id].name
             /\ store'[ret.id].emailReceivers = store[ret.id].emailReceivers
      ]_vars

\* The report id was found due by the latest tick and waits in its cursor.
InCursor(id) ==
    /\ sched.pc \in {"loop", "render"}
    /\ \E k \in 1..Len(sched.queue) : sched.queue[k].id = id

\* C30 as the spec states it: scheduler liveness.  Under fair ticking a
\* due report that a tick has found is eventually rendered by the
\* scheduler, whatever happens to the reports before it in the cursor.
\* (Behaviours that end because no further uuid or artifact can be drawn,
\* or at a leaf, are left aside.)
C30_DueReportsEventuallyRendered ==
    \A id \in UUIDs :
        InCursor(id) ~> \/ sched.pc # "stopped" /\ id \in sched.ran
                        \/ ret.leaf
                        \/ nextFile = MaxFiles
                        \/ nextUuid = MaxReports /\ id \notin DOMAIN store
====
